---- MODULE Spec2Model ----
(***************************************************************************)
(* A model of the fixed-capacity task container of src/src/TaskManager:    *)
(* the Priority enumeration, the Task record and the TaskManager with its  *)
(* three run modes ("default", "fifo", "priority").                        *)
(*                                                                         *)
(* Task objects live in a small heap indexed by Tasks; the container holds *)
(* references (heap indices), as the Python deque holds object references. *)
(***************************************************************************)
EXTENDS Integers, Sequences, FiniteSets, TLC

\* ---------------------------------------------------------------- bounds
\* Number of Task objects the callers have constructed.
NumTasks == 3
\* Largest max_queue_size a TaskManager is constructed with.
MaxCap == 2

\* ------------------------------------------------------- priority.py
low == 1
medium == 2
high == 3

Priority == {low, medium, high}

\* Priority.__lt__: both operands are Priority members, compared by value.
PriorityLt(a, b) == a < b

\* Mutant of PriorityGt: >= written for >.
PriorityGe(a, b) == ~PriorityLt(a, b)

\* a > b on two Priority members: Enum defines no __gt__, so Python falls
\* back to the reflected b.__lt__(a).
PriorityGt(a, b) == PriorityLt(b, a)

\* min(Priority): the member no other member is less than.
MinPriority == CHOOSE p \in Priority : \A q \in Priority : ~PriorityLt(q, p)

\* Priority.<member>.name
PriorityName(p) ==
    CASE p = low -> "low"
      [] p = medium -> "medium"
      [] p = high -> "high"

\* ------------------------------------------------------------- task.py
Tasks == 1..NumTasks

\* The identifiers the callers hand to Task(pid, ...), as character
\* sequences.  Two objects share the identifier "a"; "ab" has "a" as a
\* proper prefix.
PidPool == << <<"a">>, <<"a">>, <<"a", "b">>, <<"b">>, <<"b", "a">> >>

\* Task.get_pid: the identifier fixed at construction (there is no setter).
get_pid(t) == PidPool[((t - 1) % Len(PidPool)) + 1]

VARIABLES
    priority,           \* Task.__priority of every Task object
    is_active,          \* Task.is_active of every Task object
    max_queue_size,     \* TaskManager.__max_queue_size
    run_mode,           \* TaskManager.__run_mode
    duplicates_allowed, \* TaskManager.duplicates_allowed
    tasks_queue,        \* TaskManager.tasks_queue: sequence of Task references
    queue_type,         \* the Python type of tasks_queue: "deque" or "list"
    maxlen,             \* maxlen of the deque made by the constructor
    last_op,            \* the operation of the last call
    last_task,          \* the Task the last call was given (0: none)
    raised,             \* the exception the last call raised (NoError: none)
    old_queue,          \* tasks_queue as it was when the last call started
    last_args,          \* the other arguments the last call was given
    returned,           \* what the last call returned (None, or a list)
    changed_adds        \* how many of the add calls made since the last call
                        \* that was not an add found the container full in
                        \* priority mode and changed its contents

vars == << priority, is_active, max_queue_size, run_mode, duplicates_allowed,
           tasks_queue, queue_type, maxlen, last_op, last_task, raised,
           old_queue, last_args, returned, changed_adds >>

taskVars == << priority, is_active >>
configVars == << max_queue_size, run_mode, duplicates_allowed, maxlen >>

\* The arguments of a call other than a Task: the pid of kill_task, group
\* and match of kill_by_group (match is a priority name or the start of a
\* pid), by and reverse of list_running_tasks, max_queue_size and run_mode
\* of the constructor (the size as its numeric value and whether its type
\* is int); NoArgs where none is given.
NoArgs == [pid |-> << >>, group |-> "", name |-> "", by |-> "",
           reverse |-> FALSE, size |-> [isInt |-> TRUE, value |-> 0],
           mode |-> ""]

\* A call returning None, and a call returning the list l.
None == [is_none |-> TRUE, list |-> << >>]
Returned(l) == [is_none |-> FALSE, list |-> l]

\* -------------------------------------------------------------- libs.py
NoError == [exc |-> "None", msg |-> ""]

InactiveTaskError ==
    [exc |-> "InactiveTaskError",
     msg |-> "Inactive jobs can not be added to task manager."]

MaxTaskSizeError ==
    [exc |-> "MaxTaskSizeError",
     msg |-> "Task manager does not have free job slot."]

DuplicateTaskError ==
    [exc |-> "DuplicateTaskError",
     msg |-> "A job with given pid is already in queue."]

\* list has no popleft: what _add_fifo hits once kill_task or kill_by_group
\* has rebound tasks_queue to a list.
AttributeError ==
    [exc |-> "AttributeError",
     msg |-> "'list' object has no attribute 'popleft'"]

\* deque.popleft() on an empty deque.
IndexError == [exc |-> "IndexError", msg |-> "pop from an empty deque"]

ValueError ==
    [exc |-> "ValueError",
     msg |-> "'group can only be in ('priority' , 'pid')'"]

EmptyTaskManagerError ==
    [exc |-> "EmptyTaskManagerError",
     msg |-> "Empty task manager container is not permitted."]

RunModeException ==
    [exc |-> "Exception",
     msg |-> "'method' can only be in ('default', 'fifo', 'priority')"]

TypeError == [exc |-> "TypeError", msg |-> "Only integers are allowed"]

\* deque([], maxlen) with a negative maxlen.
MaxlenValueError ==
    [exc |-> "ValueError", msg |-> "maxlen must be non-negative"]

\* ------------------------------------------------------ TaskManager.py
RunModes == {"default", "fifo", "priority"}

\* The outcome of a call: the queue it leaves and the exception it raises.
Outcome(q, e) == [queue |-> q, raised |-> e]

\* [elem.get_pid for elem in self.tasks_queue]
QueuePids(q) == {get_pid(q[i]) : i \in 1..Len(q)}

\* Mutant of QueueAppend: the task goes to the left end (appendleft,
\* insert(0, task)); a deque at its maxlen discards its rightmost element.
QueueAppendLeft(q, t) ==
    IF queue_type = "deque" /\ Len(q) >= maxlen
    THEN IF maxlen = 0 THEN << >> ELSE << t >> \o SubSeq(q, 1, Len(q) - 1)
    ELSE << t >> \o q

\* tasks_queue.append(task): a deque at its maxlen discards its leftmost
\* element; a list just grows.
QueueAppend(q, t) ==
    IF queue_type = "deque" /\ Len(q) >= maxlen
    THEN IF maxlen = 0 THEN << >> ELSE Append(Tail(q), t)
    ELSE Append(q, t)

\* del tasks_queue[i], i a 0-based index.
QueueDel(q, i) == SubSeq(q, 1, i) \o SubSeq(q, i + 2, Len(q))

\* TaskManager.filled_size
filled_size == Len(tasks_queue)

\* Mutant of check_if_task_not_exists: membership tested on the Task object
\* held, not on its pid.
check_by_object(t) ==
    IF duplicates_allowed
    THEN NoError
    ELSE IF \E i \in 1..Len(tasks_queue) : tasks_queue[i] = t
         THEN DuplicateTaskError
         ELSE NoError

\* Mutant of check_if_task_not_exists: a contained task counts as the same
\* only when pid and priority both agree.
check_by_pid_and_priority(t) ==
    IF duplicates_allowed
    THEN NoError
    ELSE IF \E i \in 1..Len(tasks_queue) :
                /\ get_pid(tasks_queue[i]) = get_pid(t)
                /\ priority[tasks_queue[i]] = priority[t]
         THEN DuplicateTaskError
         ELSE NoError

\* TaskManager._check_if_task_not_exists: the exception it raises, if any.
check_if_task_not_exists(t) ==
    IF duplicates_allowed
    THEN NoError
    ELSE IF get_pid(t) \in QueuePids(tasks_queue)
         THEN DuplicateTaskError
         ELSE NoError

\* TaskManager._add
add_plain(t) ==
    LET chk == check_if_task_not_exists(t)
    IN  IF chk # NoError
        THEN Outcome(tasks_queue, chk)
        ELSE Outcome(QueueAppend(tasks_queue, t), NoError)

\* Mutant of add_fifo: the head is removed before the duplicate check.
add_fifo_pop_first(t) ==
    IF queue_type = "list"
    THEN Outcome(tasks_queue, AttributeError)
    ELSE IF tasks_queue = << >>
         THEN Outcome(tasks_queue, IndexError)
         ELSE IF ~duplicates_allowed
                 /\ get_pid(t) \in QueuePids(Tail(tasks_queue))
              THEN Outcome(Tail(tasks_queue), DuplicateTaskError)
              ELSE Outcome(QueueAppend(Tail(tasks_queue), t), NoError)

\* TaskManager._add_fifo
add_fifo(t) ==
    LET chk == check_if_task_not_exists(t)
    IN  IF chk # NoError
        THEN Outcome(tasks_queue, chk)
        ELSE IF queue_type = "list"
             THEN Outcome(tasks_queue, AttributeError)
             ELSE IF tasks_queue = << >>
                  THEN Outcome(tasks_queue, IndexError)
                  ELSE Outcome(QueueAppend(Tail(tasks_queue), t), NoError)

\* Mutant of priority_scan: the loop stops at the first task of lower
\* priority than the new one, whatever its priority.
priority_scan_first_candidate(new_task, current_index, index_to_remove, previous_low_priority) ==
    LET lower == {i \in current_index..(Len(tasks_queue) - 1) :
                     PriorityLt(priority[tasks_queue[i + 1]],
                                priority[new_task])}
    IN  IF lower = {}
        THEN index_to_remove
        ELSE CHOOSE i \in lower : \A j \in lower : i <= j

\* The scan loop of TaskManager._add_priority_based from 0-based position
\* current_index on, with index_to_remove and previous_low_priority as the
\* loop has them there; the value is index_to_remove when the loop ends.
\* The elif branch moves index_to_remove but leaves previous_low_priority
\* alone (the code assigns current_low_priority there, which nothing reads).
RECURSIVE priority_scan(_, _, _, _)
priority_scan(new_task, current_index, index_to_remove, previous_low_priority) ==
    IF current_index >= Len(tasks_queue)
    THEN index_to_remove
    ELSE LET task_priority == priority[tasks_queue[current_index + 1]]
             registered ==
                 IF index_to_remove = -1
                 THEN [index |-> current_index, low |-> task_priority]
                 ELSE IF PriorityLt(task_priority, previous_low_priority)
                      THEN [index |-> current_index,
                            low |-> previous_low_priority]
                      ELSE [index |-> index_to_remove,
                            low |-> previous_low_priority]
         IN  IF PriorityGt(priority[new_task], task_priority)
             THEN IF task_priority = MinPriority
                  THEN current_index
                  ELSE priority_scan(new_task, current_index + 1,
                                     registered.index, registered.low)
             ELSE priority_scan(new_task, current_index + 1, index_to_remove,
                                previous_low_priority)

\* Mutant of add_priority_based: the return of the "no candidate" branch is
\* missing, so del tasks_queue[-1] drops the newest task.
add_priority_based_no_skip(new_task) ==
    IF priority[new_task] = MinPriority
    THEN Outcome(tasks_queue, NoError)
    ELSE IF check_if_task_not_exists(new_task) # NoError
         THEN Outcome(tasks_queue, NoError)
         ELSE LET index_to_remove == priority_scan(new_task, 0, -1, -1)
                  index == IF index_to_remove = -1
                           THEN Len(tasks_queue) - 1
                           ELSE index_to_remove
              IN  Outcome(QueueAppend(QueueDel(tasks_queue, index), new_task),
                          NoError)

\* Mutant of add_priority_based: DuplicateTaskError is not caught.
add_priority_based_raises(new_task) ==
    IF priority[new_task] = MinPriority
    THEN Outcome(tasks_queue, NoError)
    ELSE IF check_if_task_not_exists(new_task) # NoError
         THEN Outcome(tasks_queue, check_if_task_not_exists(new_task))
         ELSE LET index_to_remove == priority_scan(new_task, 0, -1, -1)
              IN  IF index_to_remove = -1
                  THEN Outcome(tasks_queue, NoError)
                  ELSE Outcome(QueueAppend(QueueDel(tasks_queue,
                                                    index_to_remove),
                                           new_task),
                               NoError)

\* TaskManager._add_priority_based
add_priority_based(new_task) ==
    IF priority[new_task] = MinPriority
    THEN Outcome(tasks_queue, NoError)
    ELSE IF check_if_task_not_exists(new_task) # NoError
         THEN Outcome(tasks_queue, NoError)
         ELSE LET index_to_remove == priority_scan(new_task, 0, -1, -1)
              IN  IF index_to_remove = -1
                  THEN Outcome(tasks_queue, NoError)
                  ELSE Outcome(QueueAppend(QueueDel(tasks_queue,
                                                    index_to_remove),
                                           new_task),
                               NoError)

\* Mutant of is_full: > written for >=.
is_full_off_by_one == filled_size > max_queue_size

\* Whether add sees the container as full.
is_full == filled_size >= max_queue_size

\* Mutant of add_outcome: the capacity check comes before the is_active
\* check.
add_outcome_capacity_first(t) ==
    IF is_full
    THEN CASE run_mode = "default" -> Outcome(tasks_queue, MaxTaskSizeError)
           [] run_mode = "fifo" ->
                  IF is_active[t] THEN add_fifo(t)
                  ELSE Outcome(tasks_queue, InactiveTaskError)
           [] run_mode = "priority" ->
                  IF is_active[t] THEN add_priority_based(t)
                  ELSE Outcome(tasks_queue, InactiveTaskError)
           [] OTHER -> Outcome(tasks_queue, NoError)
    ELSE IF is_active[t] THEN add_plain(t)
         ELSE Outcome(tasks_queue, InactiveTaskError)

\* Mutant of add_outcome: in "default" mode the duplicate check comes
\* before the capacity check.
add_outcome_duplicate_first(t) ==
    IF ~is_active[t]
    THEN Outcome(tasks_queue, InactiveTaskError)
    ELSE IF is_full
         THEN CASE run_mode = "default" ->
                       IF check_if_task_not_exists(t) # NoError
                       THEN Outcome(tasks_queue, check_if_task_not_exists(t))
                       ELSE Outcome(tasks_queue, MaxTaskSizeError)
                [] run_mode = "fifo" -> add_fifo(t)
                [] run_mode = "priority" -> add_priority_based(t)
                [] OTHER -> Outcome(tasks_queue, NoError)
         ELSE add_plain(t)

\* Mutant of add_outcome: the "priority" branch calls _add_fifo.
add_outcome_priority_as_fifo(t) ==
    IF ~is_active[t]
    THEN Outcome(tasks_queue, InactiveTaskError)
    ELSE IF is_full
         THEN CASE run_mode = "default" ->
                       Outcome(tasks_queue, MaxTaskSizeError)
                [] run_mode = "fifo" -> add_fifo(t)
                [] run_mode = "priority" -> add_fifo(t)
                [] OTHER -> Outcome(tasks_queue, NoError)
         ELSE add_plain(t)

\* TaskManager.add: what the call does to the queue and what it raises.
add_outcome(t) ==
    IF ~is_active[t]
    THEN Outcome(tasks_queue, InactiveTaskError)
    ELSE IF is_full
         THEN CASE run_mode = "default" ->
                       Outcome(tasks_queue, MaxTaskSizeError)
                [] run_mode = "fifo" -> add_fifo(t)
                [] run_mode = "priority" -> add_priority_based(t)
                [] OTHER -> Outcome(tasks_queue, NoError)
         ELSE add_plain(t)

\* ------------------------------------------------------------- actions
\* The state after TaskManager(max_queue_size, run_mode, verbose,
\* duplicates_allowed) succeeded and the callers built their Tasks
\* (is_active defaults to True).
Init ==
    /\ priority \in [Tasks -> Priority]
    /\ is_active = [t \in Tasks |-> TRUE]
    /\ max_queue_size \in 1..MaxCap
    /\ maxlen = max_queue_size
    /\ run_mode \in RunModes
    /\ duplicates_allowed \in BOOLEAN
    /\ tasks_queue = << >>
    /\ queue_type = "deque"
    /\ last_op = "init"
    /\ changed_adds = 0
    /\ last_task = 0
    /\ raised = NoError
    /\ old_queue = << >>
    /\ last_args = NoArgs
    /\ returned = None

\* Mutant of TaskKill: the flag is flipped instead of cleared.
TaskKillToggle(t) ==
    /\ is_active' = [is_active EXCEPT ![t] = ~is_active[t]]
    /\ last_op' = "Task.kill"
    /\ changed_adds' = 0
    /\ last_task' = t
    /\ raised' = NoError
    /\ old_queue' = tasks_queue
    /\ last_args' = NoArgs
    /\ returned' = None
    /\ UNCHANGED << priority, tasks_queue, queue_type, configVars >>

\* Task.kill
TaskKill(t) ==
    /\ is_active' = [is_active EXCEPT ![t] = FALSE]
    /\ last_op' = "Task.kill"
    /\ changed_adds' = 0
    /\ last_task' = t
    /\ raised' = NoError
    /\ old_queue' = tasks_queue
    /\ last_args' = NoArgs
    /\ returned' = None
    /\ UNCHANGED << priority, tasks_queue, queue_type, configVars >>

\* What the callers pass to Task.set_priority: a Priority member, or
\* something that is no Priority (a string, a number).
SetPriorityInputs ==
    {[isPriority |-> TRUE, member |-> p] : p \in Priority}
        \cup {[isPriority |-> FALSE, member |-> 0]}

\* Task.set_priority(value)
TaskSetPriority(t, value) ==
    /\ priority' = IF value.isPriority
                   THEN [priority EXCEPT ![t] = value.member]
                   ELSE priority
    /\ last_op' = "Task.set_priority"
    /\ changed_adds' = 0
    /\ last_task' = t
    /\ raised' = NoError
    /\ old_queue' = tasks_queue
    /\ last_args' = NoArgs
    /\ returned' = None
    /\ UNCHANGED << is_active, tasks_queue, queue_type, configVars >>

\* changed_adds counts no further than this.
MaxChangedAdds == 2 * MaxCap + 1

\* TaskManager.add(task)
Add(t) ==
    /\ tasks_queue' = add_outcome(t).queue
    /\ raised' = add_outcome(t).raised
    /\ last_op' = "add"
    /\ changed_adds' =
          IF /\ run_mode = "priority"
             /\ is_full
             /\ add_outcome(t).queue # tasks_queue
             /\ changed_adds < MaxChangedAdds
          THEN changed_adds + 1
          ELSE changed_adds
    /\ last_task' = t
    /\ old_queue' = tasks_queue
    /\ last_args' = NoArgs
    /\ returned' = None
    /\ UNCHANGED << taskVars, queue_type, configVars >>

\* Mutant of KillAllTasks: the queue is cleared but the tasks are not
\* killed.
KillAllTasksClearOnly ==
    /\ tasks_queue' = << >>
    /\ last_op' = "kill_all_tasks"
    /\ changed_adds' = 0
    /\ last_task' = 0
    /\ raised' = NoError
    /\ old_queue' = tasks_queue
    /\ last_args' = NoArgs
    /\ returned' = None
    /\ UNCHANGED << taskVars, queue_type, configVars >>

\* TaskManager.kill_all_tasks, with _clear_tasks_queue
KillAllTasks ==
    /\ is_active' = [t \in Tasks |->
                        IF \E i \in 1..Len(tasks_queue) : tasks_queue[i] = t
                        THEN FALSE ELSE is_active[t]]
    /\ tasks_queue' = << >>
    /\ last_op' = "kill_all_tasks"
    /\ changed_adds' = 0
    /\ last_task' = 0
    /\ raised' = NoError
    /\ old_queue' = tasks_queue
    /\ last_args' = NoArgs
    /\ returned' = None
    /\ UNCHANGED << priority, queue_type, configVars >>

\* str.startswith
startswith(s, prefix) ==
    /\ Len(prefix) <= Len(s)
    /\ SubSeq(s, 1, Len(prefix)) = prefix

\* Mutant of KillTask: the pid is matched as a prefix.
KillTaskByPrefix(pid) ==
    /\ LET Keep(elem) == ~startswith(get_pid(elem), pid)
       IN  tasks_queue' = SelectSeq(tasks_queue, Keep)
    /\ queue_type' = "list"
    /\ last_op' = "kill_task"
    /\ changed_adds' = 0
    /\ last_task' = 0
    /\ raised' = NoError
    /\ old_queue' = tasks_queue
    /\ last_args' = [NoArgs EXCEPT !.pid = pid]
    /\ returned' = None
    /\ UNCHANGED << taskVars, configVars >>

\* TaskManager.kill_task(pid): the list comprehension keeps, in order, the
\* elements whose pid differs, and rebinds tasks_queue to that list.
KillTask(pid) ==
    /\ LET Keep(elem) == get_pid(elem) # pid
       IN  tasks_queue' = SelectSeq(tasks_queue, Keep)
    /\ queue_type' = "list"
    /\ last_op' = "kill_task"
    /\ changed_adds' = 0
    /\ last_task' = 0
    /\ raised' = NoError
    /\ old_queue' = tasks_queue
    /\ last_args' = [NoArgs EXCEPT !.pid = pid]
    /\ returned' = None
    /\ UNCHANGED << taskVars, configVars >>

\* Mutant of KillByPriority: the removed tasks are killed as kill_all_tasks
\* kills them.
KillByPriorityKilling(match) ==
    /\ LET Keep(elem) == PriorityName(priority[elem]) # match
       IN  /\ tasks_queue' = SelectSeq(tasks_queue, Keep)
           /\ is_active' = [t \in Tasks |->
                  IF \E i \in 1..Len(tasks_queue) :
                         tasks_queue[i] = t /\ ~Keep(t)
                  THEN FALSE ELSE is_active[t]]
    /\ queue_type' = "list"
    /\ last_op' = "kill_by_group"
    /\ changed_adds' = 0
    /\ last_task' = 0
    /\ raised' = NoError
    /\ old_queue' = tasks_queue
    /\ last_args' = [NoArgs EXCEPT !.group = "priority", !.name = match]
    /\ returned' = None
    /\ UNCHANGED << priority, configVars >>

\* TaskManager.kill_by_group(group="priority", match)
KillByPriority(match) ==
    /\ LET Keep(elem) == PriorityName(priority[elem]) # match
       IN  tasks_queue' = SelectSeq(tasks_queue, Keep)
    /\ queue_type' = "list"
    /\ last_op' = "kill_by_group"
    /\ changed_adds' = 0
    /\ last_task' = 0
    /\ raised' = NoError
    /\ old_queue' = tasks_queue
    /\ last_args' = [NoArgs EXCEPT !.group = "priority", !.name = match]
    /\ returned' = None
    /\ UNCHANGED << taskVars, configVars >>

\* Mutant of KillByPid: the pid is compared for equality with match.
KillByPidExact(match) ==
    /\ LET Keep(elem) == get_pid(elem) # match
       IN  tasks_queue' = SelectSeq(tasks_queue, Keep)
    /\ queue_type' = "list"
    /\ last_op' = "kill_by_group"
    /\ changed_adds' = 0
    /\ last_task' = 0
    /\ raised' = NoError
    /\ old_queue' = tasks_queue
    /\ last_args' = [NoArgs EXCEPT !.group = "pid", !.pid = match]
    /\ returned' = None
    /\ UNCHANGED << taskVars, configVars >>

\* TaskManager.kill_by_group(group="pid", match)
KillByPid(match) ==
    /\ LET Keep(elem) == ~startswith(get_pid(elem), match)
       IN  tasks_queue' = SelectSeq(tasks_queue, Keep)
    /\ queue_type' = "list"
    /\ last_op' = "kill_by_group"
    /\ changed_adds' = 0
    /\ last_task' = 0
    /\ raised' = NoError
    /\ old_queue' = tasks_queue
    /\ last_args' = [NoArgs EXCEPT !.group = "pid", !.pid = match]
    /\ returned' = None
    /\ UNCHANGED << taskVars, configVars >>

\* TaskManager.kill_by_group with a group that is neither "priority" nor
\* "pid"
KillByOther ==
    /\ raised' = ValueError
    /\ last_op' = "kill_by_group"
    /\ changed_adds' = 0
    /\ last_task' = 0
    /\ old_queue' = tasks_queue
    /\ last_args' = [NoArgs EXCEPT !.group = "other"]
    /\ returned' = None
    /\ UNCHANGED << taskVars, tasks_queue, queue_type, configVars >>

\* The code point of a character of a pid.
Ord(c) ==
    CASE c = "a" -> 97
      [] c = "b" -> 98

\* s < t on two Python strings: the first differing character decides, and
\* a proper prefix is less.
RECURSIVE StrLt(_, _)
StrLt(s, t) ==
    IF t = << >>
    THEN FALSE
    ELSE IF s = << >>
         THEN TRUE
         ELSE IF Ord(Head(s)) # Ord(Head(t))
              THEN Ord(Head(s)) < Ord(Head(t))
              ELSE StrLt(Tail(s), Tail(t))

\* key(a) < key(b) for the key list_running_tasks sorts by: t.get_priority
\* (Priority.__lt__) or t.get_pid (str).
KeyLt(by, a, b) ==
    IF by = "priority"
    THEN PriorityLt(priority[a], priority[b])
    ELSE StrLt(get_pid(a), get_pid(b))

\* list(q)[::-1]
RECURSIVE Reverse(_)
Reverse(q) == IF q = << >> THEN << >> ELSE Append(Reverse(Tail(q)), Head(q))

\* Mutant of insert_sorted: x goes before the elements of equal key.
RECURSIVE insert_before_equal(_, _, _)
insert_before_equal(sorted_part, x, by) ==
    IF sorted_part = << >>
    THEN << x >>
    ELSE IF ~KeyLt(by, Head(sorted_part), x)
         THEN << x >> \o sorted_part
         ELSE << Head(sorted_part) >>
                  \o insert_before_equal(Tail(sorted_part), x, by)

\* One step of the stable sort behind sorted(): x is placed before the
\* first element whose key is greater (x < element), so after every
\* element of equal key.
RECURSIVE insert_sorted(_, _, _)
insert_sorted(sorted_part, x, by) ==
    IF sorted_part = << >>
    THEN << x >>
    ELSE IF KeyLt(by, x, Head(sorted_part))
         THEN << x >> \o sorted_part
         ELSE << Head(sorted_part) >>
                  \o insert_sorted(Tail(sorted_part), x, by)

\* The ascending stable sort of q by key, using < on the keys only.
RECURSIVE stable_sort(_, _)
stable_sort(q, by) ==
    IF q = << >>
    THEN << >>
    ELSE insert_sorted(stable_sort(SubSeq(q, 1, Len(q) - 1), by),
                       q[Len(q)], by)

\* Mutant of sorted_py: with reverse the ascending result is reversed.
sorted_then_reversed(q, by, reverse) ==
    IF reverse THEN Reverse(stable_sort(q, by)) ELSE stable_sort(q, by)

\* sorted(q, key=..., reverse=reverse): with reverse, Python reverses the
\* list, sorts it stably and reverses the result, which keeps elements of
\* equal key in their original order.
sorted_py(q, by, reverse) ==
    IF reverse
    THEN Reverse(stable_sort(Reverse(q), by))
    ELSE stable_sort(q, by)

\* TaskManager.list_running_tasks(by, reverse): what it returns.
list_running_tasks(by, reverse) ==
    IF by \notin {"ctime", "pid", "priority"}
    THEN None
    ELSE IF filled_size = 0
         THEN None
         ELSE IF by = "ctime"
              THEN IF reverse
                   THEN Returned(Reverse(tasks_queue))
                   ELSE Returned(tasks_queue)
              ELSE Returned(sorted_py(tasks_queue, by, reverse))

\* What the callers pass as by.
ByInputs == {"ctime", "pid", "priority", "other"}

\* TaskManager.list_running_tasks(by, reverse)
ListRunningTasks(by, reverse) ==
    /\ returned' = list_running_tasks(by, reverse)
    /\ last_op' = "list_running_tasks"
    /\ changed_adds' = 0
    /\ last_task' = 0
    /\ raised' = NoError
    /\ old_queue' = tasks_queue
    /\ last_args' = [NoArgs EXCEPT !.by = by, !.reverse = reverse]
    /\ UNCHANGED << taskVars, tasks_queue, queue_type, configVars >>

\* The strings the callers pass as pid or as match.
PidInputs == {get_pid(t) : t \in Tasks} \cup {<< "b" >>}
MatchNames == {PriorityName(p) : p \in Priority} \cup {"other"}
MatchPrefixes == PidInputs \cup {<< >>}

Next ==
    \/ \E t \in Tasks : TaskKill(t)
    \/ \E t \in Tasks, value \in SetPriorityInputs : TaskSetPriority(t, value)
    \/ \E t \in Tasks : Add(t)
    \/ KillAllTasks
    \/ \E pid \in PidInputs : KillTask(pid)
    \/ \E match \in MatchNames : KillByPriority(match)
    \/ \E match \in MatchPrefixes : KillByPid(match)
    \/ KillByOther

Spec == Init /\ [][Next]_vars

\* The same callers, who also list the container between the other calls.
NextList ==
    \/ Next
    \/ \E by \in ByInputs, reverse \in BOOLEAN : ListRunningTasks(by, reverse)

SpecList == Init /\ [][NextList]_vars

\* What the callers pass to set_max_queue_size: nothing is validated, so
\* zero and sizes above the constructor's are accepted like any other.
SetSizeInputs == 0..(MaxCap + 1)

\* TaskManager.set_max_queue_size(max_queue_size): the attribute is
\* rebound; the deque keeps the maxlen the constructor gave it.
SetMaxQueueSize(n) ==
    /\ max_queue_size' = n
    /\ last_op' = "set_max_queue_size"
    /\ changed_adds' = 0
    /\ last_task' = 0
    /\ raised' = NoError
    /\ old_queue' = tasks_queue
    /\ last_args' = NoArgs
    /\ returned' = None
    /\ UNCHANGED << taskVars, tasks_queue, queue_type, run_mode,
                    duplicates_allowed, maxlen >>

\* What the callers pass to set_run_method: a recognised mode or any other
\* string.
SetModeInputs == RunModes \cup {"lifo"}

\* TaskManager.set_run_method(new_run_mode): the attribute is rebound
\* without a check.
SetRunMethod(new_run_mode) ==
    /\ run_mode' = new_run_mode
    /\ last_op' = "set_run_method"
    /\ changed_adds' = 0
    /\ last_task' = 0
    /\ raised' = NoError
    /\ old_queue' = tasks_queue
    /\ last_args' = NoArgs
    /\ returned' = None
    /\ UNCHANGED << taskVars, tasks_queue, queue_type, max_queue_size,
                    duplicates_allowed, maxlen >>

\* The operations of a TaskManager whose callers also use the two setters:
\* add, the kill operations and the setters.
NextSetters ==
    \/ \E t \in Tasks : Add(t)
    \/ KillAllTasks
    \/ \E pid \in PidInputs : KillTask(pid)
    \/ \E match \in MatchNames : KillByPriority(match)
    \/ \E match \in MatchPrefixes : KillByPid(match)
    \/ KillByOther
    \/ \E n \in SetSizeInputs : SetMaxQueueSize(n)
    \/ \E new_run_mode \in SetModeInputs : SetRunMethod(new_run_mode)

\* These callers build their tasks with the priorities low, medium, high in
\* turn and never change them.
InitSetters ==
    /\ Init
    /\ priority = [t \in Tasks |-> ((t - 1) % Cardinality(Priority)) + 1]

SpecSetters == InitSetters /\ [][NextSetters]_vars

\* What the callers pass to the constructor as max_queue_size: an int from
\* -1 up, or a number of another type (a float, a bool) of value -1, 0, 1.
ConstructSizes ==
    {[isInt |-> TRUE, value |-> v] : v \in (-1)..MaxCap}
        \cup {[isInt |-> FALSE, value |-> v] : v \in (-1)..1}

\* TaskManager.__init__(max_queue_size, run_mode): what it raises. The
\* checks run in this order: size == 0, the run mode, type(size) is int;
\* a negative int passes all three and deque([], size) raises.
init_outcome(size, mode) ==
    IF size.value = 0
    THEN EmptyTaskManagerError
    ELSE IF mode \notin RunModes
         THEN RunModeException
         ELSE IF ~size.isInt
              THEN TypeError
              ELSE IF size.value < 0
                   THEN MaxlenValueError
                   ELSE NoError

\* The state after a call of TaskManager(max_queue_size, run_mode,
\* duplicates_allowed=...). When the constructor raises there is no
\* manager: its fields keep placeholder values and nothing can be called.
InitConstruct ==
    \E size \in ConstructSizes, mode \in SetModeInputs :
        /\ raised = init_outcome(size, mode)
        /\ last_args = [NoArgs EXCEPT !.size = size, !.mode = mode]
        /\ last_op = "init"
        /\ changed_adds = 0
        /\ IF init_outcome(size, mode) = NoError
           THEN /\ max_queue_size = size.value
                /\ maxlen = size.value
                /\ run_mode = mode
                /\ duplicates_allowed \in BOOLEAN
           ELSE /\ max_queue_size = 0
                /\ maxlen = 0
                /\ run_mode = ""
                /\ duplicates_allowed = FALSE
        /\ priority = [t \in Tasks |-> ((t - 1) % Cardinality(Priority)) + 1]
        /\ is_active = [t \in Tasks |-> TRUE]
        /\ tasks_queue = << >>
        /\ queue_type = "deque"
        /\ last_task = 0
        /\ old_queue = << >>
        /\ returned = None

\* The constructor returned a manager.
Constructed == ~(last_op = "init" /\ raised # NoError)

NextConstruct == Constructed /\ NextSetters

SpecConstruct == InitConstruct /\ [][NextConstruct]_vars

\* ---------------------------------------------------------------- claims
\* What the claims say about the last call.
AddCalled == last_op = "add"
WasFull == Len(old_queue) >= max_queue_size
Unchanged == tasks_queue = old_queue
PidWasPresent == get_pid(last_task) \in QueuePids(old_queue)

\* C1: the number of contained tasks is at most the capacity, in every
\* state reachable by add, the kill operations, Task.kill and
\* Task.set_priority, in every run mode, duplicates allowed or not.
C1_SizeAtMostCapacity == Len(tasks_queue) <= max_queue_size

\* C1 witness: an add on a full container changed it (an eviction), on a
\* container that a kill operation had rebound to a list, and left it full.
C1_Witness ==
    /\ AddCalled
    /\ WasFull
    /\ ~Unchanged
    /\ queue_type = "list"
    /\ Len(tasks_queue) = max_queue_size

\* C2: with duplicates disallowed, no two contained tasks have the same
\* identifier.
C2_NoDuplicatePids ==
    ~duplicates_allowed =>
        \A i, j \in 1..Len(tasks_queue) :
            i # j => get_pid(tasks_queue[i]) # get_pid(tasks_queue[j])

\* C2 witness: with duplicates disallowed, an add of a second Task object
\* carrying a contained identifier was refused on a container that holds
\* two tasks.
C2_Witness ==
    /\ ~duplicates_allowed
    /\ AddCalled
    /\ raised = DuplicateTaskError
    /\ last_task \notin {old_queue[i] : i \in 1..Len(old_queue)}
    /\ Len(tasks_queue) = 2

\* C3: add of an inactive task raises InactiveTaskError and leaves the
\* container unchanged, in every run mode and fill state, whether or not
\* its identifier is present (the check comes first).
C3_InactiveAddFails ==
    (AddCalled /\ ~is_active[last_task]) =>
        (raised = InactiveTaskError /\ Unchanged)

\* C3 witness: an inactive task whose identifier is present was given to
\* add on a full container, in "default" mode with duplicates disallowed.
C3_Witness ==
    /\ AddCalled
    /\ ~is_active[last_task]
    /\ WasFull
    /\ PidWasPresent
    /\ ~duplicates_allowed
    /\ run_mode = "default"
    /\ raised = InactiveTaskError

\* C4: in "default" mode, add of an active task to a container at capacity
\* raises MaxTaskSizeError with its message, whether or not the identifier
\* is present, and leaves the container's contents and order unchanged.
C4_StrictFullRaises ==
    (AddCalled /\ run_mode = "default" /\ is_active[last_task] /\ WasFull) =>
        /\ raised.exc = "MaxTaskSizeError"
        /\ raised.msg = "Task manager does not have free job slot."
        /\ Unchanged

\* C4 witness: such an add, of a task whose identifier is present, with
\* duplicates disallowed, on a container of two tasks.
C4_Witness ==
    /\ AddCalled
    /\ run_mode = "default"
    /\ is_active[last_task]
    /\ WasFull
    /\ PidWasPresent
    /\ ~duplicates_allowed
    /\ Len(old_queue) = 2
    /\ raised = MaxTaskSizeError

\* The queue a fifo eviction leaves: the old queue without its head,
\* followed by the new task.
HeadEvicted == tasks_queue = Append(Tail(old_queue), last_task)

\* C5: in "fifo" mode, in every reachable state where the container is at
\* capacity (also after kill_task or kill_by_group removals and re-filling),
\* add of an active task whose identifier is not present succeeds, removes
\* the head and appends the new task at the tail; the size stays at
\* capacity.
C5_FifoEvictsHead ==
    (/\ AddCalled
     /\ run_mode = "fifo"
     /\ is_active[last_task]
     /\ Len(old_queue) = max_queue_size
     /\ ~PidWasPresent) =>
        /\ raised = NoError
        /\ HeadEvicted
        /\ Len(tasks_queue) = max_queue_size

\* C6: in "fifo" mode with duplicates disallowed, add of an active task to
\* a full container that holds a task with the same identifier (the head
\* included) raises DuplicateTaskError and evicts nothing.
C6_FifoDuplicateRefused ==
    (/\ AddCalled
     /\ run_mode = "fifo"
     /\ ~duplicates_allowed
     /\ is_active[last_task]
     /\ WasFull
     /\ PidWasPresent) =>
        (raised = DuplicateTaskError /\ Unchanged)

\* C6 witness: the identifier given is that of the head, and of no other
\* task, of a full container of two tasks.
C6_Witness ==
    /\ AddCalled
    /\ run_mode = "fifo"
    /\ ~duplicates_allowed
    /\ is_active[last_task]
    /\ WasFull
    /\ Len(old_queue) = 2
    /\ get_pid(old_queue[1]) = get_pid(last_task)
    /\ get_pid(old_queue[2]) # get_pid(last_task)
    /\ raised = DuplicateTaskError

\* The Priority rank of the task at position i of q.
RankAt(q, i) == priority[q[i]]

\* Some task of q has a priority strictly below that of task t.
HasLowerThan(q, t) == \E i \in 1..Len(q) : RankAt(q, i) < priority[t]

\* The position of the earliest task among those of the lowest priority
\* present in q.
EarliestLowest(q) ==
    CHOOSE i \in 1..Len(q) :
        /\ \A j \in 1..Len(q) : RankAt(q, i) <= RankAt(q, j)
        /\ \A j \in 1..(i - 1) : RankAt(q, i) < RankAt(q, j)

\* q without its element at position i (1-based).
Without(q, i) == [k \in 1..(Len(q) - 1) |-> IF k < i THEN q[k] ELSE q[k + 1]]

\* The new task was admitted at the tail and the earliest lowest-priority
\* task, and no other, was evicted: the others keep their order and the
\* size is unchanged.
LowestEvicted ==
    /\ raised = NoError
    /\ tasks_queue =
           Append(Without(old_queue, EarliestLowest(old_queue)), last_task)
    /\ Len(tasks_queue) = Len(old_queue)

\* The case of C7: "priority" mode, a full container, an active incoming
\* task of priority strictly above that of some contained task.
C7_Case ==
    /\ AddCalled
    /\ run_mode = "priority"
    /\ is_active[last_task]
    /\ Len(old_queue) = max_queue_size
    /\ HasLowerThan(old_queue, last_task)

\* C7 as stated: in that case add admits the incoming task at the tail and
\* evicts exactly the earliest task of the lowest priority present.
C7_PriorityEvictsAsStated == C7_Case => LowestEvicted

\* C7 amended: the same, provided duplicates are allowed or no contained
\* task has the incoming task's identifier.
C7_PriorityEvictsLowest ==
    (C7_Case /\ (duplicates_allowed \/ ~PidWasPresent)) => LowestEvicted

\* C7 witness: the evicted task is not the first one of lower priority
\* than the incoming task: the head is medium, the second task low, the
\* incoming task high.
C7_Witness ==
    /\ C7_Case
    /\ ~PidWasPresent
    /\ Len(old_queue) = 2
    /\ RankAt(old_queue, 1) = medium
    /\ RankAt(old_queue, 2) = low
    /\ priority[last_task] = high
    /\ tasks_queue = << old_queue[1], last_task >>

\* C8: in "priority" mode, add of an active task of priority low to a full
\* container changes nothing and raises nothing, whatever the contained
\* priorities.
C8_LowNeverAdmittedWhenFull ==
    (/\ AddCalled
     /\ run_mode = "priority"
     /\ is_active[last_task]
     /\ priority[last_task] = low
     /\ WasFull) =>
        (raised = NoError /\ Unchanged)

\* C8 witness: duplicates are allowed and every contained task is low too.
C8_Witness ==
    /\ AddCalled
    /\ run_mode = "priority"
    /\ is_active[last_task]
    /\ priority[last_task] = low
    /\ WasFull
    /\ duplicates_allowed
    /\ Len(old_queue) = 2
    /\ \A i \in 1..Len(old_queue) : RankAt(old_queue, i) = low
    /\ raised = NoError

\* C9: in "priority" mode, when the container is full and no contained
\* task has a priority strictly below the incoming active task's, add
\* raises nothing and leaves the container as it was.
C9_NoCandidateSkips ==
    (/\ AddCalled
     /\ run_mode = "priority"
     /\ is_active[last_task]
     /\ WasFull
     /\ ~HasLowerThan(old_queue, last_task)) =>
        (raised = NoError /\ Unchanged)

\* C9 witness: the incoming task is medium, its identifier is not present,
\* and the two contained tasks are medium and high.
C9_Witness ==
    /\ AddCalled
    /\ run_mode = "priority"
    /\ is_active[last_task]
    /\ WasFull
    /\ ~PidWasPresent
    /\ priority[last_task] = medium
    /\ Len(old_queue) = 2
    /\ RankAt(old_queue, 1) = medium
    /\ RankAt(old_queue, 2) = high
    /\ Unchanged

\* C10: in "priority" mode with duplicates disallowed, add of an active
\* task to a full container that holds a task with the same identifier
\* raises nothing (no DuplicateTaskError), evicts nothing and leaves the
\* container unchanged, even when a task of strictly lower priority is
\* present.
C10_PriorityDuplicateSkipped ==
    (/\ AddCalled
     /\ run_mode = "priority"
     /\ ~duplicates_allowed
     /\ is_active[last_task]
     /\ WasFull
     /\ PidWasPresent) =>
        (raised = NoError /\ Unchanged)

\* C10 witness: the incoming task is high, another Task object with its
\* identifier is contained, and a low task is contained too.
C10_Witness ==
    /\ AddCalled
    /\ run_mode = "priority"
    /\ ~duplicates_allowed
    /\ is_active[last_task]
    /\ WasFull
    /\ PidWasPresent
    /\ last_task \notin {old_queue[i] : i \in 1..Len(old_queue)}
    /\ priority[last_task] = high
    /\ \E i \in 1..Len(old_queue) : RankAt(old_queue, i) = low
    /\ raised = NoError

\* The Task objects held in q.
Held(q) == {q[i] : i \in 1..Len(q)}

\* C11: below capacity, in any run mode, add of an active task whose
\* identifier is that of a contained task raises DuplicateTaskError and
\* changes nothing when duplicates are disallowed, and appends a second
\* copy at the tail when they are allowed; only identifiers are compared.
C11_DuplicateBelowCapacity ==
    (/\ AddCalled
     /\ is_active[last_task]
     /\ Len(old_queue) < max_queue_size
     /\ PidWasPresent) =>
        IF duplicates_allowed
        THEN raised = NoError /\ tasks_queue = Append(old_queue, last_task)
        ELSE raised = DuplicateTaskError /\ Unchanged

\* C11 witness: duplicates are disallowed and the task refused is another
\* object than the contained one, with another priority.
C11_Witness ==
    /\ AddCalled
    /\ is_active[last_task]
    /\ Len(old_queue) < max_queue_size
    /\ ~duplicates_allowed
    /\ last_task \notin Held(old_queue)
    /\ \E i \in 1..Len(old_queue) :
           /\ get_pid(old_queue[i]) = get_pid(last_task)
           /\ priority[old_queue[i]] # priority[last_task]
    /\ raised = DuplicateTaskError

\* C12: with set_max_queue_size among the operations (with add and the
\* kill operations), the capacity is at least 1 and the number of contained
\* tasks is at most the capacity, in every reachable state.
C12_CapacityKeptBySetter ==
    /\ max_queue_size >= 1
    /\ Len(tasks_queue) <= max_queue_size

\* C13: the run mode is one of the three recognised values in every
\* reachable state: set_run_method with any other value raises and leaves
\* the run mode as it was, so an add on a full container always takes one
\* of the three overflow paths.
C13_RunModeValidated ==
    /\ run_mode \in RunModes
    /\ (last_op = "set_run_method" /\ raised = NoError) =>
           run_mode \in RunModes

\* A task that is inactive stays inactive over the step.
InactiveStays == \A t \in Tasks : ~is_active[t] => ~is_active'[t]

\* The step is an add of a task that was inactive, and it raises
\* InactiveTaskError and leaves the container alone; or it is no such add.
InactiveAddRefused ==
    (last_op' = "add" /\ ~is_active[last_task']) =>
        (raised' = InactiveTaskError /\ tasks_queue' = tasks_queue)

\* The step is a kill_all_tasks that empties the container, raises
\* nothing, marks exactly the contained tasks inactive and changes no
\* other task (so on an empty container it changes nothing); or it is no
\* kill_all_tasks.
KillAllEffect ==
    (last_op' = "kill_all_tasks") =>
        /\ tasks_queue' = << >>
        /\ raised' = NoError
        /\ \A t \in Tasks :
               is_active'[t] = (is_active[t] /\ t \notin Held(tasks_queue))
        /\ priority' = priority

\* C14: kill_all_tasks marks every contained task inactive and empties the
\* container, from any reachable state; on an empty container it changes
\* nothing and raises nothing; a task contained at that time can never be
\* added again: it stays inactive over every step and an add of an
\* inactive task raises InactiveTaskError.
C14_KillAllIsFinal ==
    [][KillAllEffect /\ InactiveStays /\ InactiveAddRefused]_vars

\* C14 witness: kill_all_tasks emptied a container of two tasks that a
\* kill operation had rebound to a list, and both tasks are inactive.
C14_Witness ==
    /\ last_op = "kill_all_tasks"
    /\ Len(old_queue) = 2
    /\ old_queue[1] # old_queue[2]
    /\ queue_type = "list"
    /\ tasks_queue = << >>
    /\ \A t \in Held(old_queue) : ~is_active[t]
    /\ \E t \in Tasks : is_active[t]

\* The k-th smallest member of the set K of positions.
Nth(K, k) == CHOOSE i \in K : Cardinality({j \in K : j <= i}) = k

\* The elements of q at the positions in K, in their order in q.
Remaining(q, K) == [k \in 1..Cardinality(K) |-> q[Nth(K, k)]]

\* C15: kill_task(pid) removes every contained task whose identifier
\* equals pid, and no other: the non-matching tasks remain in their
\* previous relative order; a pid that matches nothing leaves the
\* container unchanged; nothing is raised.
C15_KillTaskRemovesExactly ==
    (last_op = "kill_task") =>
        /\ raised = NoError
        /\ tasks_queue =
               Remaining(old_queue,
                         {i \in 1..Len(old_queue) :
                              get_pid(old_queue[i]) # last_args.pid})
        /\ (last_args.pid \notin QueuePids(old_queue)) => Unchanged

\* C15 witness: of two contained tasks "a" and "ab", kill_task("a") removed
\* the first and kept the second.
C15_Witness ==
    /\ last_op = "kill_task"
    /\ last_args.pid = << "a" >>
    /\ Len(old_queue) = 2
    /\ get_pid(old_queue[1]) = << "a" >>
    /\ get_pid(old_queue[2]) = << "a", "b" >>
    /\ tasks_queue = << old_queue[2] >>

\* s starts with prefix: prefix is no longer than s and agrees with it
\* character by character.
StartsWith(s, prefix) ==
    /\ Len(prefix) <= Len(s)
    /\ \A k \in 1..Len(prefix) : s[k] = prefix[k]

\* C16: kill_by_group with group "priority" removes exactly the contained
\* tasks whose priority name equals match, with group "pid" exactly those
\* whose identifier starts with match; the others keep their relative
\* order. With any other group the call raises ValueError and the
\* container is unchanged.
C16_KillByGroupRemovesExactly ==
    (last_op = "kill_by_group") =>
        CASE last_args.group = "priority" ->
                 /\ raised = NoError
                 /\ tasks_queue =
                        Remaining(old_queue,
                                  {i \in 1..Len(old_queue) :
                                       PriorityName(priority[old_queue[i]])
                                           # last_args.name})
          [] last_args.group = "pid" ->
                 /\ raised = NoError
                 /\ tasks_queue =
                        Remaining(old_queue,
                                  {i \in 1..Len(old_queue) :
                                       ~StartsWith(get_pid(old_queue[i]),
                                                   last_args.pid)})
          [] OTHER -> raised.exc = "ValueError" /\ Unchanged

\* C16 witness: with group "pid" and match "ab", of two contained tasks
\* "a" and "ab" the second was removed and the first kept.
C16_Witness ==
    /\ last_op = "kill_by_group"
    /\ last_args.group = "pid"
    /\ last_args.pid = << "a", "b" >>
    /\ Len(old_queue) = 2
    /\ get_pid(old_queue[1]) = << "a" >>
    /\ get_pid(old_queue[2]) = << "a", "b" >>
    /\ tasks_queue = << old_queue[1] >>

\* The positions of q whose task has the key of task t: neither key is less
\* than the other.
SameKey(q, by, t) ==
    {i \in 1..Len(q) : ~KeyLt(by, q[i], t) /\ ~KeyLt(by, t, q[i])}

\* res holds the tasks of q, each as often as q does, and among the tasks of
\* one key keeps the order they have in q.
StablePermutation(res, q, by) ==
    /\ Len(res) = Len(q)
    /\ \A i \in 1..Len(q) :
          Remaining(res, SameKey(res, by, q[i]))
              = Remaining(q, SameKey(q, by, q[i]))

\* No element of res has a key less than an earlier element's.
Ascending(res, by) ==
    \A i \in 1..Len(res) : \A j \in (i + 1)..Len(res) :
        ~KeyLt(by, res[j], res[i])

ListedBy(by, reverse) ==
    /\ last_op = "list_running_tasks"
    /\ last_args.by = by
    /\ last_args.reverse = reverse
    /\ old_queue # << >>

\* C17: list_running_tasks(by="priority", reverse=False) on a non-empty
\* container returns the contained tasks, each once per occurrence, in
\* ascending order of priority rank, tasks of equal priority in their
\* container order, and leaves the container as it was.
C17_ListByPriorityStable ==
    ListedBy("priority", FALSE) =>
        /\ ~returned.is_none
        /\ StablePermutation(returned.list, old_queue, "priority")
        /\ Ascending(returned.list, "priority")
        /\ \A i \in 1..(Len(returned.list) - 1) :
              priority[returned.list[i]] <= priority[returned.list[i + 1]]
        /\ Unchanged

\* Listed by priority: the container holds two different tasks of equal
\* priority, or a task before one of lower priority, and the listing keeps
\* the first pair in order and swaps the second.
C17_Witness ==
    /\ ListedBy("priority", FALSE)
    /\ Len(old_queue) = 2
    /\ old_queue[1] # old_queue[2]
    /\ \/ /\ priority[old_queue[1]] = priority[old_queue[2]]
          /\ returned.list = old_queue
       \/ /\ priority[old_queue[1]] > priority[old_queue[2]]
          /\ returned.list = << old_queue[2], old_queue[1] >>

SortKeys == {"ctime", "pid", "priority"}

\* No element of res has a key greater than an earlier element's.
Descending(res, by) ==
    \A i \in 1..Len(res) : \A j \in (i + 1)..Len(res) :
        ~KeyLt(by, res[i], res[j])

\* No two positions of q hold tasks of equal key.
KeysDistinct(q, by) ==
    \A i \in 1..Len(q) : SameKey(q, by, q[i]) = {i}

\* C18 as stated: for every non-empty container and every sort key,
\* list_running_tasks(by, reverse=True) returns exactly the reversed
\* sequence of list_running_tasks(by, reverse=False), tasks of equal key
\* included.
C18_ReverseIsReversedForward ==
    \A by \in SortKeys :
        ListedBy(by, TRUE) =>
            /\ ~returned.is_none
            /\ returned.list = Reverse(list_running_tasks(by, FALSE).list)

\* C18 amended: with reverse=True, by="ctime" returns the reversed container
\* order; by="pid" and by="priority" return the contained tasks in
\* descending key order with tasks of equal key kept in container order,
\* which is the reversed forward listing whenever no two contained tasks
\* have equal keys.
C18_ReverseKeepsTies ==
    \A by \in SortKeys :
        ListedBy(by, TRUE) =>
            /\ ~returned.is_none
            /\ Unchanged
            /\ by = "ctime" => returned.list = Reverse(old_queue)
            /\ by # "ctime" =>
                  /\ StablePermutation(returned.list, old_queue, by)
                  /\ Descending(returned.list, by)
                  /\ KeysDistinct(old_queue, by) =>
                        returned.list
                            = Reverse(list_running_tasks(by, FALSE).list)

\* Listed by priority with reverse=True while two different tasks of equal
\* priority are contained: they come back in container order, which is not
\* the reversed forward listing.
C18_Witness ==
    /\ ListedBy("priority", TRUE)
    /\ Len(old_queue) = 2
    /\ old_queue[1] # old_queue[2]
    /\ priority[old_queue[1]] = priority[old_queue[2]]
    /\ returned.list = old_queue
    /\ returned.list # Reverse(list_running_tasks("priority", FALSE).list)

\* C19: construction with a zero or negative capacity fails with
\* EmptyTaskManagerError, construction with an unrecognised run mode fails,
\* and a construction that succeeds yields capacity >= 1 and an empty
\* container.
C19_ConstructionValidated ==
    last_op = "init" =>
        /\ last_args.size.value <= 0 => raised = EmptyTaskManagerError
        /\ last_args.mode \notin RunModes => raised # NoError
        /\ raised = NoError => max_queue_size >= 1 /\ tasks_queue = << >>

\* What a call of Task.kill does to its task: the task is inactive
\* afterwards, nothing is raised, nothing else about any task or the
\* container changes, and a kill of an inactive task changes no task.
KillEffect ==
    last_op' = "Task.kill" =>
        /\ ~is_active'[last_task']
        /\ raised' = NoError
        /\ \A t \in Tasks \ {last_task'} : is_active'[t] = is_active[t]
        /\ ~is_active[last_task'] => is_active' = is_active
        /\ UNCHANGED << priority, tasks_queue, queue_type >>

\* C20: in every step of every operation (kill, set_priority, add,
\* kill_all_tasks, kill_task, kill_by_group, list_running_tasks) a task that
\* is inactive stays inactive; Task.kill never raises and a kill of an
\* already inactive task leaves every task as it was.
C20_LivenessMonotone == [][InactiveStays /\ KillEffect]_vars

\* Task.kill was called on a task that is in the container while another
\* task, killed before, is still inactive.
C20_Witness ==
    /\ last_op = "Task.kill"
    /\ ~is_active[last_task]
    /\ last_task \in Held(tasks_queue)
    /\ \E t \in Tasks \ {last_task} : ~is_active[t]

\* The sequences obtained from q by deleting elements: what is left keeps
\* its order.
Subsequences(q) == {Remaining(q, K) : K \in SUBSET (1..Len(q))}

\* A step keeps the order of the tasks it leaves in the container, and an
\* add puts nothing into the container but its task, at the tail.
OrderKept ==
    \/ tasks_queue' \in Subsequences(tasks_queue)
    \/ /\ last_op' = "add"
       /\ \E front \in Subsequences(tasks_queue) :
             tasks_queue' = Append(front, last_task')

\* An add that changed the container has its task at the tail.
AdmittedAtTail ==
    (last_op' = "add" /\ tasks_queue' # tasks_queue) =>
        /\ tasks_queue' # << >>
        /\ tasks_queue'[Len(tasks_queue')] = last_task'

\* C21: the container is insertion-ordered: every add, kill_task and
\* kill_by_group (fifo and priority evictions included) leaves the tasks that
\* stay in the container in the order they had, and a task admitted by add is
\* at the tail right after that add.
C21_InsertionOrdered == [][OrderKept /\ AdmittedAtTail]_vars

\* An add on a full container of two different tasks evicted the first: the
\* second moved to the head and the admitted task is at the tail.
C21_Witness ==
    /\ AddCalled
    /\ raised = NoError
    /\ Len(old_queue) = 2
    /\ old_queue[1] # old_queue[2]
    /\ last_task \notin Held(old_queue)
    /\ tasks_queue = << old_queue[2], last_task >>

\* set_max_queue_size raised the capacity above the constructor's.
CapacityRaised == max_queue_size > maxlen

\* C22: after set_max_queue_size(n) with n above the construction-time
\* capacity, an add of an active task whose pid is not contained, to a
\* container of fewer than n tasks, appends the task and keeps every
\* contained task; in default mode no add removes a contained task.
C22_RaisedCapacityAdmits ==
    (AddCalled /\ CapacityRaised) =>
        /\ (/\ is_active[last_task]
            /\ ~PidWasPresent
            /\ Len(old_queue) < max_queue_size)
               => tasks_queue = Append(old_queue, last_task)
        /\ run_mode = "default" =>
               /\ Len(tasks_queue) >= Len(old_queue)
               /\ SubSeq(tasks_queue, 1, Len(old_queue)) = old_queue

\* The tasks q holds and r does not.
Gone(q, r) == Held(q) \ Held(r)

\* A call other than Task.kill and kill_all_tasks leaves every flag as it
\* was, so the tasks it takes out of the container that were active are
\* active.
LivenessFrame ==
    last_op' \notin {"Task.kill", "kill_all_tasks"} =>
        /\ is_active' = is_active
        /\ \A t \in Gone(tasks_queue, tasks_queue') :
              is_active[t] => is_active'[t]

\* An add of an active task is not refused as inactive.
ActiveAddNotRefused ==
    (last_op' = "add" /\ is_active[last_task']) =>
        raised' # InactiveTaskError

C24_ContainedTasksActive ==
    /\ \A t \in Held(tasks_queue) : is_active[t]
    /\ last_op = "list_running_tasks" =>
          \A t \in Held(returned.list) : is_active[t]

\* The sum of the priority ranks of the tasks q holds.
RECURSIVE RankSum(_)
RankSum(q) == IF q = << >> THEN 0 ELSE priority[Head(q)] + RankSum(Tail(q))

\* add found the container full in priority mode.
PriorityFullAdd == AddCalled /\ run_mode = "priority" /\ WasFull

\* The add replaced one contained task of strictly lower priority than its
\* own task, which is therefore not a high-priority task, and the rank sum
\* grew.
EvictedLower ==
    /\ RankSum(tasks_queue) > RankSum(old_queue)
    /\ \E i \in 1..Len(old_queue) :
          /\ tasks_queue = Append(Without(old_queue, i), last_task)
          /\ priority[old_queue[i]] < priority[last_task]
          /\ priority[old_queue[i]] # high

\* C25: in priority mode an add on a full container leaves the container
\* unchanged or replaces a task of strictly lower priority than the admitted
\* one (never a high-priority task), which strictly increases the sum of the
\* contained priority ranks; and of the add calls made in a row on a full
\* container of capacity N at most 2*N change its contents.
C25_PriorityAddsRaiseRankSum ==
    /\ PriorityFullAdd => (Unchanged \/ EvictedLower)
    /\ changed_adds <= 2 * max_queue_size

\* A run of adds on a full container of at least two tasks changed it 2*N
\* times: the bound is reached.
C25_Witness ==
    /\ PriorityFullAdd
    /\ max_queue_size >= 2
    /\ changed_adds = 2 * max_queue_size
    /\ EvictedLower

====
